---- MODULE Spec2Model ----
(***************************************************************************)
(* Model of the SSR rating engine of mark-allwyn/sage                      *)
(* (backend/ssr_core/ssr_model.py, backend/ssr_core/survey.py).            *)
(*                                                                         *)
(* Numbers.  numpy float64 values are modelled as pairs <<n, d>>:          *)
(*   d > 0   the finite value n/d, kept in lowest terms,                   *)
(*   <<1,0>> +inf (what float64 gives on overflow),                        *)
(*   <<0,0>> nan.                                                          *)
(* Finite arithmetic is exact; the float64 behaviour that is kept is the   *)
(* one that changes results by more than rounding: overflow of exp to inf, *)
(* underflow of exp to 0, inf/inf = nan, 0/0 = nan, x/0 = inf.             *)
(***************************************************************************)
EXTENDS Integers, Sequences, FiniteSets, TLC

\* ------------------------------------------------------------------ bounds
MaxN == 3
MaxResponses == 2
MaxConcResponses == 1

\* ------------------------------------------------------------- arithmetic
Abs(x) == IF x < 0 THEN -x ELSE x

RECURSIVE Gcd(_, _)
Gcd(a, b) == IF b = 0 THEN a ELSE Gcd(b, a % b)

Inf == <<1, 0>>
NegInf == <<0 - 1, 0>>
NaN == <<0, 0>>
Zero == <<0, 1>>
One == <<1, 1>>

IsFinite(x) == x[2] > 0
IsNaN(x) == x = NaN

\* lowest terms, positive denominator
Norm(n, d) ==
    IF n = 0 THEN <<0, 1>>
    ELSE LET g == Gcd(Abs(n), Abs(d))
         IN  IF d < 0 THEN <<(0 - n) \div g, (0 - d) \div g>>
                      ELSE <<n \div g, d \div g>>

FLess(a, b) == a[1] * b[2] < b[1] * a[2]

FNeg(a) == <<0 - a[1], a[2]>>

Sign(a) == IF a[1] < 0 THEN 0 - 1 ELSE 1

FAdd(a, b) ==
    IF IsNaN(a) \/ IsNaN(b) THEN NaN
    ELSE IF ~IsFinite(a) /\ ~IsFinite(b) THEN (IF a = b THEN a ELSE NaN)
    ELSE IF ~IsFinite(a) THEN a
    ELSE IF ~IsFinite(b) THEN b
    ELSE Norm(a[1] * b[2] + b[1] * a[2], a[2] * b[2])

FSub(a, b) == FAdd(a, FNeg(b))

\* a / b
FDiv(a, b) ==
    IF IsNaN(a) \/ IsNaN(b) THEN NaN
    ELSE IF ~IsFinite(a) THEN (IF ~IsFinite(b) THEN NaN ELSE <<Sign(a) * Sign(b), 0>>)
    ELSE IF ~IsFinite(b) THEN Zero
    ELSE IF b[1] = 0 THEN (IF a[1] = 0 THEN NaN ELSE <<Sign(a), 0>>)
    ELSE Norm(a[1] * b[2], a[2] * b[1])

RECURSIVE FSum(_)
FSum(v) == IF v = <<>> THEN Zero ELSE FAdd(v[1], FSum(Tail(v)))

RECURSIVE FMin(_)
FMin(v) ==
    IF Len(v) = 1 THEN v[1]
    ELSE LET m == FMin(Tail(v)) IN IF FLess(m, v[1]) THEN m ELSE v[1]

\* float64 exp: +inf above ExpOverflow, 0 below -ExpUnderflow; in between
\* the (1,1) Pade approximant (2+x)/(2-x), positive and increasing on
\* |x| < 2, which is where the model evaluates it.
ExpOverflow == 710
ExpUnderflow == 746

FExp(x) ==
    IF IsNaN(x) THEN NaN
    ELSE IF ~IsFinite(x) THEN (IF x = Inf THEN Inf ELSE Zero)
    ELSE IF x[1] >= ExpOverflow * x[2] THEN Inf
    ELSE IF 0 - x[1] >= ExpUnderflow * x[2] THEN Zero
    ELSE Norm(2 * x[2] + x[1], 2 * x[2] - x[1])

\* ------------------------------------------------------------- normalizer
Methods == {"paper", "softmax", "linear", "rank"}

ConfigError == "ValueError"

\* np.argsort: position list ordered by value, ties by index (numpy sorts
\* arrays this short by insertion sort)
Before(v, i, j) == FLess(v[i], v[j]) \/ (v[i] = v[j] /\ i < j)

argsort(v) ==
    [k \in 1..Len(v) |->
        CHOOSE i \in 1..Len(v) :
            Cardinality({j \in 1..Len(v) : Before(v, j, i)}) = k - 1]

IntVec(p) == [k \in 1..Len(p) |-> <<p[k], 1>>]

\* the normalizer without the zero-sum fallback of paper and linear
SimilaritiesToProbabilitiesNoFallback(similarities, normalize_method, temperature) ==
    IF normalize_method = "paper"
    THEN LET m == FMin(similarities)
             shifted == [k \in 1..Len(similarities) |-> FSub(similarities[k], m)]
             scaled == [k \in 1..Len(shifted) |-> FDiv(shifted[k], temperature)]
             s == FSum(scaled)
         IN  [ok |-> TRUE,
              probs |-> [k \in 1..Len(scaled) |-> FDiv(scaled[k], s)]]
    ELSE IF normalize_method = "softmax"
    THEN LET exp_sim == [k \in 1..Len(similarities) |->
                            FExp(FDiv(similarities[k], temperature))]
             s == FSum(exp_sim)
         IN  [ok |-> TRUE,
              probs |-> [k \in 1..Len(exp_sim) |-> FDiv(exp_sim[k], s)]]
    ELSE IF normalize_method = "linear"
    THEN LET m == FMin(similarities)
             shifted == [k \in 1..Len(similarities) |-> FSub(similarities[k], m)]
             s == FSum(shifted)
         IN  [ok |-> TRUE,
              probs |-> [k \in 1..Len(shifted) |-> FDiv(shifted[k], s)]]
    ELSE IF normalize_method = "rank"
    THEN LET a == argsort(similarities)
             ranks == argsort(IntVec(a))
             r == IntVec(ranks)
             s == FSum(r)
         IN  [ok |-> TRUE,
              probs |-> [k \in 1..Len(r) |-> FDiv(r[k], s)]]
    ELSE [ok |-> FALSE, err |-> ConfigError]

\* the normalizer with a silent default in place of the final raise
SimilaritiesToProbabilitiesAnyMethod(similarities, normalize_method, temperature) ==
    IF normalize_method = "paper"
    THEN LET m == FMin(similarities)
             shifted == [k \in 1..Len(similarities) |-> FSub(similarities[k], m)]
             scaled == [k \in 1..Len(shifted) |-> FDiv(shifted[k], temperature)]
             s == FSum(scaled)
         IN  [ok |-> TRUE,
              probs |-> IF FLess(Zero, s)
                        THEN [k \in 1..Len(scaled) |-> FDiv(scaled[k], s)]
                        ELSE [k \in 1..Len(scaled) |-> FDiv(One, <<Len(scaled), 1>>)]]
    ELSE IF normalize_method = "softmax"
    THEN LET exp_sim == [k \in 1..Len(similarities) |->
                            FExp(FDiv(similarities[k], temperature))]
             s == FSum(exp_sim)
         IN  [ok |-> TRUE,
              probs |-> [k \in 1..Len(exp_sim) |-> FDiv(exp_sim[k], s)]]
    ELSE IF normalize_method = "linear"
    THEN LET m == FMin(similarities)
             shifted == [k \in 1..Len(similarities) |-> FSub(similarities[k], m)]
             s == FSum(shifted)
         IN  [ok |-> TRUE,
              probs |-> IF FLess(Zero, s)
                        THEN [k \in 1..Len(shifted) |-> FDiv(shifted[k], s)]
                        ELSE [k \in 1..Len(shifted) |-> FDiv(One, <<Len(shifted), 1>>)]]
    ELSE IF normalize_method = "rank"
    THEN LET a == argsort(similarities)
             ranks == argsort(IntVec(a))
             r == IntVec(ranks)
             s == FSum(r)
         IN  [ok |-> TRUE,
              probs |-> [k \in 1..Len(r) |-> FDiv(r[k], s)]]
    ELSE [ok |-> TRUE,
          probs |-> [k \in 1..Len(similarities) |-> FDiv(One, <<Len(similarities), 1>>)]]

\* SemanticSimilarityRater.similarities_to_probabilities: the returned
\* record is [ok |-> TRUE, probs |-> vector] or [ok |-> FALSE, err |-> e]
similarities_to_probabilities(similarities, normalize_method, temperature) ==
    IF normalize_method = "paper"
    THEN LET m == FMin(similarities)
             shifted == [k \in 1..Len(similarities) |-> FSub(similarities[k], m)]
             scaled == [k \in 1..Len(shifted) |-> FDiv(shifted[k], temperature)]
             s == FSum(scaled)
         IN  [ok |-> TRUE,
              probs |-> IF FLess(Zero, s)
                        THEN [k \in 1..Len(scaled) |-> FDiv(scaled[k], s)]
                        ELSE [k \in 1..Len(scaled) |-> FDiv(One, <<Len(scaled), 1>>)]]
    ELSE IF normalize_method = "softmax"
    THEN LET exp_sim == [k \in 1..Len(similarities) |->
                            FExp(FDiv(similarities[k], temperature))]
             s == FSum(exp_sim)
         IN  [ok |-> TRUE,
              probs |-> [k \in 1..Len(exp_sim) |-> FDiv(exp_sim[k], s)]]
    ELSE IF normalize_method = "linear"
    THEN LET m == FMin(similarities)
             shifted == [k \in 1..Len(similarities) |-> FSub(similarities[k], m)]
             s == FSum(shifted)
         IN  [ok |-> TRUE,
              probs |-> IF FLess(Zero, s)
                        THEN [k \in 1..Len(shifted) |-> FDiv(shifted[k], s)]
                        ELSE [k \in 1..Len(shifted) |-> FDiv(One, <<Len(shifted), 1>>)]]
    ELSE IF normalize_method = "rank"
    THEN LET a == argsort(similarities)
             ranks == argsort(IntVec(a))
             r == IntVec(ranks)
             s == FSum(r)
         IN  [ok |-> TRUE,
              probs |-> [k \in 1..Len(r) |-> FDiv(r[k], s)]]
    ELSE [ok |-> FALSE, err |-> ConfigError]

\* ----------------------------------------------------------------- survey
LikertTypes == {"likert_5", "likert_7"}

NoScale == [present |-> FALSE, labels |-> <<>>]
NoOptions == [present |-> FALSE, items |-> <<>>]

\* A labels mapping is the sequence of its <<key, label>> items in the
\* order the dict holds them.
LabelsLowMidHigh == << <<1, "low">>, <<2, "mid">>, <<3, "high">> >>
LabelsUnordered == << <<3, "high">>, <<1, "low">>, <<2, "mid">> >>

Q1 == [id |-> "q1", type |-> "likert_5",
       scale |-> [present |-> TRUE, labels |-> LabelsLowMidHigh], options |-> NoOptions]
Q2 == [id |-> "q2", type |-> "yes_no", scale |-> NoScale, options |-> NoOptions]
Q3 == [id |-> "q3", type |-> "likert_7",
       scale |-> [present |-> TRUE, labels |-> LabelsUnordered], options |-> NoOptions]
QBad == [id |-> "qbad", type |-> "multiple_choice", scale |-> NoScale, options |-> NoOptions]
\* questions handed to the engine directly that are not part of the survey
QNoScale == [id |-> "q4", type |-> "likert_5", scale |-> NoScale, options |-> NoOptions]
QPrefNoScale == [id |-> "q5", type |-> "preference_scale", scale |-> NoScale, options |-> NoOptions]
QUnknown == [id |-> "q6", type |-> "open_text", scale |-> NoScale, options |-> NoOptions]
NoQuestion == [id |-> "", type |-> "", scale |-> NoScale, options |-> NoOptions]

\* Survey.questions
SurveyQuestions == <<Q1, Q2, Q3, QBad>>

Keys(labels) == {labels[i][1] : i \in 1..Len(labels)}

Label(labels, k) == labels[CHOOSE i \in 1..Len(labels) : labels[i][1] = k][2]

\* sorted(scale_labels.keys())
SortedKeys(labels) ==
    [n \in 1..Len(labels) |->
        CHOOSE k \in Keys(labels) :
            Cardinality({j \in Keys(labels) : j < k}) = n - 1]

\* get_reference_statements with a yes/no default in place of its raise
GetReferenceStatementsDefault(q) ==
    IF q.type \in LikertTypes /\ q.scale.present
    THEN [ok |-> TRUE, labels |-> q.scale.labels]
    ELSE IF q.type = "preference_scale" /\ q.scale.present
    THEN [ok |-> TRUE, labels |-> q.scale.labels]
    ELSE IF q.type = "multiple_choice" /\ q.options.present /\ Len(q.options.items) > 0
    THEN [ok |-> TRUE,
          labels |-> [i \in 1..Len(q.options.items) |-> <<i, q.options.items[i]>>]]
    ELSE [ok |-> TRUE, labels |-> << <<1, "No">>, <<2, "Yes">> >>]

\* Question.get_reference_statements
get_reference_statements(q) ==
    IF q.type \in LikertTypes /\ q.scale.present
    THEN [ok |-> TRUE, labels |-> q.scale.labels]
    ELSE IF q.type = "preference_scale" /\ q.scale.present
    THEN [ok |-> TRUE, labels |-> q.scale.labels]
    ELSE IF q.type = "yes_no"
    THEN [ok |-> TRUE, labels |-> << <<1, "No">>, <<2, "Yes">> >>]
    ELSE IF q.type = "multiple_choice" /\ q.options.present /\ Len(q.options.items) > 0
    THEN [ok |-> TRUE,
          labels |-> [i \in 1..Len(q.options.items) |-> <<i, q.options.items[i]>>]]
    ELSE [ok |-> FALSE, err |-> ConfigError]

\* the statements in the order the mapping holds them, without the sort
ReferenceStatementsUnsorted(labels) == [n \in 1..Len(labels) |-> labels[n][2]]

\* reference_statements = [scale_labels[i] for i in sorted(scale_labels.keys())]
ReferenceStatements(labels) ==
    [n \in 1..Len(labels) |-> Label(labels, SortedKeys(labels)[n])]

\* Survey.get_question_by_id: index of the first question with the id, 0 for None
get_question_by_id(question_id) ==
    IF \E i \in 1..Len(SurveyQuestions) : SurveyQuestions[i].id = question_id
    THEN CHOOSE i \in 1..Len(SurveyQuestions) :
            /\ SurveyQuestions[i].id = question_id
            /\ \A j \in 1..(i - 1) : SurveyQuestions[j].id # question_id
    ELSE 0

\* ------------------------------------------------------ embedding provider
\* A deterministic provider: the vector of a text depends on the text only.
Embedding(text) ==
    CASE text = "low" -> <<0 - 5, 0>>
      [] text = "mid" -> <<0, 5>>
      [] text = "high" -> <<5, 0>>
      [] text = "No" -> <<0, 0 - 5>>
      [] text = "Yes" -> <<0, 5>>
      [] text = "fine" -> <<3, 4>>
      [] text = "great" -> <<4, 3>>
      [] OTHER -> <<0, 0>>

\* what the provider answers to one request, when it answers
Embed(texts) == [i \in 1..Len(texts) |-> Embedding(texts[i])]

ProviderErrors == {"APIConnectionError", "RateLimitError"}

Dot(a, b) == a[1] * b[1] + a[2] * b[2]

ISqrt(n) == CHOOSE r \in 0..n : r * r = n

L2(a) == IF Dot(a, a) = 0 THEN 1 ELSE ISqrt(Dot(a, a))

\* sklearn cosine_similarity(X, Y): rows of X against rows of Y
cosine_similarity(X, Y) ==
    [i \in 1..Len(X) |-> [j \in 1..Len(Y) |-> Norm(Dot(X[i], Y[j]), L2(X[i]) * L2(Y[j]))]]

SubSeqFrom(s, n) == [i \in 1..(Len(s) - n + 1) |-> s[n + i - 1]]

Texts(responses) == [i \in 1..Len(responses) |-> responses[i].text_response]

\* ----------------------------------------------------------- rating engine
VARIABLES
    reference_cache,    \* SemanticSimilarityRater._reference_cache
    normalize_method,   \* SemanticSimilarityRater.normalize_method
    temperature,        \* SemanticSimilarityRater.temperature
    th,                 \* per caller: the call in progress and its outcome
    norm,               \* a direct call of similarities_to_probabilities
    agg,                \* a call of aggregate_distributions_by_question
    cmp,                \* a call of compare_survey_runs
    cd,                 \* a direct call of compare_distributions
    cnv                 \* a value passed through convert_numpy_types, twice

vars == <<reference_cache, normalize_method, temperature, th, norm, agg, cmp, cd, cnv>>

Callers == {"main", "w1", "w2"}
Workers == {"w1", "w2"}

Idle ==
    [pc |-> "idle", op |-> "none", responses |-> <<>>, question |-> NoQuestion,
     groups |-> <<>>, gi |-> 0, texts |-> <<>>, key |-> <<>>, hit |-> FALSE,
     labels |-> <<>>, reference_embeddings |-> <<>>, sent |-> <<>>,
     raised |-> "none", acc |-> <<>>, status |-> "none", value |-> <<>>,
     err |-> "none"]

NormIdle == [pc |-> "idle", similarities |-> <<>>, out |-> [ok |-> FALSE, err |-> "none"]]

AggIdle == [pc |-> "idle", responses |-> <<>>, distributions |-> <<>>, aggregated |-> <<>>]

CdIdle ==
    [pc |-> "idle", ground_truth_dist |-> <<>>, test_dist |-> <<>>, sample_size |-> 0,
     out |-> <<>>]

\* None
NoneValue == [kind |-> "none", num |-> <<0, 1>>, items |-> <<>>]

CnvIdle == [pc |-> "idle", obj |-> NoneValue, once |-> NoneValue, twice |-> NoneValue]

CmpIdle ==
    [pc |-> "idle", ground_truth |-> <<>>, test_run |-> <<>>, compared |-> <<>>,
     results |-> [overall_metrics |-> <<>>, by_category |-> <<>>, by_question |-> <<>>]]

\* one cache slot for the engine, whatever the statements
CacheKeyShared(reference_statements) == <<"references">>

\* cache_key = tuple(reference_statements)
CacheKey(reference_statements) == reference_statements

\* a cache of one entry: the write drops every other key
CacheStoreEvicting(cache, key, reference_embeddings) ==
    [k \in {key} |-> reference_embeddings]

\* self._reference_cache[cache_key] = reference_embeddings
CacheStore(cache, key, reference_embeddings) ==
    [k \in (DOMAIN cache) \cup {key} |->
        IF k = key THEN reference_embeddings ELSE cache[k]]

RatingDistribution(response, question, probabilities, labels, similarities) ==
    [question_id |-> question.id,
     respondent_id |-> response.respondent_id,
     distribution |-> probabilities,
     scale_labels |-> labels,
     text_response |-> response.text_response,
     similarities |-> similarities]

\* float64 product
FMul(a, b) ==
    IF IsNaN(a) \/ IsNaN(b) THEN NaN
    ELSE IF ~IsFinite(a) \/ ~IsFinite(b)
         THEN IF a[1] = 0 \/ b[1] = 0 THEN NaN
              ELSE <<Sign(a) * Sign(b), 0>>
    ELSE Norm(a[1] * b[1], a[2] * b[2])

\* np.argmax: the first index of the largest entry, the first nan if any
ArgMax(v) ==
    IF \E i \in 1..Len(v) : IsNaN(v[i])
    THEN CHOOSE i \in 1..Len(v) : IsNaN(v[i]) /\ \A j \in 1..(i - 1) : ~IsNaN(v[j])
    ELSE CHOOSE i \in 1..Len(v) :
            /\ \A j \in 1..Len(v) : ~FLess(v[i], v[j])
            /\ \A j \in 1..(i - 1) : FLess(v[j], v[i])

\* list(self.scale_labels.keys()): the keys in the order the dict holds them
ScalePoints(labels) == [i \in 1..Len(labels) |-> labels[i][1]]

\* RatingDistribution.expected_value
expected_value(d) ==
    LET scale_points == ScalePoints(d.scale_labels)
    IN  FSum([i \in 1..Len(d.distribution) |->
                FMul(<<scale_points[i], 1>>, d.distribution[i])])

\* RatingDistribution.mode
mode(d) == ScalePoints(d.scale_labels)[ArgMax(d.distribution)]

\* compute_semantic_similarities: all_texts = [response_text] + reference_statements
RateRequest(response, reference_statements) ==
    <<response.text_response>> \o reference_statements

\* rate_response after get_embeddings has answered
RateFinish(response, question, labels, embeddings, method, temp) ==
    LET response_embedding == SubSeq(embeddings, 1, 1)
        reference_embeddings == SubSeqFrom(embeddings, 2)
        similarities == cosine_similarity(response_embedding, reference_embeddings)[1]
        p == similarities_to_probabilities(similarities, method, temp)
    IN  IF p.ok
        THEN [ok |-> TRUE,
              value |-> <<RatingDistribution(response, question, p.probs, labels,
                                             similarities)>>]
        ELSE [ok |-> FALSE, err |-> p.err]

\* _rate_responses_batch without its "if not responses" return
BatchPrepareNoEmptyCheck(responses, question, cache) ==
    LET r == get_reference_statements(question)
    IN  IF ~r.ok THEN [kind |-> "raise", err |-> r.err]
        ELSE LET reference_statements == ReferenceStatements(r.labels)
                 key == CacheKey(reference_statements)
                 hit == key \in DOMAIN cache
             IN  [kind |-> "call", labels |-> r.labels, key |-> key, hit |-> hit,
                  texts |-> IF hit THEN Texts(responses)
                                   ELSE Texts(responses) \o reference_statements,
                  reference_embeddings |-> IF hit THEN cache[key] ELSE <<>>]

\* _rate_responses_batch up to its get_embeddings call
BatchPrepare(responses, question, cache) ==
    IF responses = <<>> THEN [kind |-> "return"]
    ELSE LET r == get_reference_statements(question)
         IN  IF ~r.ok THEN [kind |-> "raise", err |-> r.err]
             ELSE LET reference_statements == ReferenceStatements(r.labels)
                      key == CacheKey(reference_statements)
                      hit == key \in DOMAIN cache
                  IN  [kind |-> "call", labels |-> r.labels, key |-> key, hit |-> hit,
                       texts |-> IF hit THEN Texts(responses)
                                        ELSE Texts(responses) \o reference_statements,
                       reference_embeddings |-> IF hit THEN cache[key] ELSE <<>>]

\* the split of all_embeddings on a cache miss
SplitResponses(all_embeddings, n_responses) == SubSeq(all_embeddings, 1, n_responses)

\* the reference slice taken one row too far
SplitReferencesOffByOne(all_embeddings, n_responses) == SubSeqFrom(all_embeddings, n_responses + 2)

SplitReferences(all_embeddings, n_responses) == SubSeqFrom(all_embeddings, n_responses + 1)

\* the loop that builds the distributions of a batch
BatchDistributions(responses, question, labels, response_embeddings, reference_embeddings, method, temp) ==
    LET similarities_matrix == cosine_similarity(response_embeddings, reference_embeddings)
        p == [i \in 1..Len(responses) |->
                similarities_to_probabilities(similarities_matrix[i], method, temp)]
    IN  IF \E i \in 1..Len(responses) : ~p[i].ok
        THEN [ok |-> FALSE, err |-> p[CHOOSE i \in 1..Len(responses) : ~p[i].ok].err]
        ELSE [ok |-> TRUE,
              value |-> [i \in 1..Len(responses) |->
                            RatingDistribution(responses[i], question, p[i].probs,
                                               labels, similarities_matrix[i])]]

\* one group per response, equal question ids not merged
GroupIdsNoMerge(responses) == [i \in 1..Len(responses) |-> responses[i].question_id]

\* responses_by_question: the groups in order of first occurrence
RECURSIVE GroupIds(_)
GroupIds(responses) ==
    IF responses = <<>> THEN <<>>
    ELSE LET rest == GroupIds(SubSeq(responses, 1, Len(responses) - 1))
             q == responses[Len(responses)].question_id
         IN  IF \E i \in 1..Len(rest) : rest[i] = q THEN rest ELSE Append(rest, q)

RECURSIVE Select(_, _)
Select(responses, question_id) ==
    IF responses = <<>> THEN <<>>
    ELSE IF Head(responses).question_id = question_id
         THEN <<Head(responses)>> \o Select(Tail(responses), question_id)
         ELSE Select(Tail(responses), question_id)

\* the groups taken in the reverse of their order of first occurrence
GroupsLastFirst(responses) ==
    LET ids == GroupIds(responses)
    IN  [g \in 1..Len(ids) |->
            [question_id |-> ids[Len(ids) + 1 - g],
             responses |-> Select(responses, ids[Len(ids) + 1 - g])]]

\* responses_by_question.items(): one group per question_id, in order of
\* first occurrence, each holding its responses in input order
Groups(responses) ==
    LET ids == GroupIds(responses)
    IN  [g \in 1..Len(ids) |->
            [question_id |-> ids[g], responses |-> Select(responses, ids[g])]]

\* the loop of rate_responses with "break" where the code has "continue"
ManyNextBreak(groups, gi) ==
    IF gi > Len(groups) THEN gi
    ELSE IF \E i \in 1..Len(SurveyQuestions) : SurveyQuestions[i].id = groups[gi].question_id
         THEN gi
         ELSE Len(groups) + 1

\* the loop of rate_responses: the next group at or after gi whose question
\* resolves (the others are skipped with a warning), Len + 1 when none is left
RECURSIVE ManyNext(_, _)
ManyNext(groups, gi) ==
    IF gi > Len(groups) THEN gi
    ELSE IF get_question_by_id(groups[gi].question_id) # 0 THEN gi
    ELSE ManyNext(groups, gi + 1)

\* ------------------------------------------------------------------ inputs
Pool ==
    { [respondent_id |-> "r1", question_id |-> "q1", text_response |-> "fine"],
      [respondent_id |-> "r2", question_id |-> "q1", text_response |-> "great"],
      [respondent_id |-> "r1", question_id |-> "q2", text_response |-> "great"],
      [respondent_id |-> "r3", question_id |-> "q3", text_response |-> "fine"],
      [respondent_id |-> "r2", question_id |-> "qbad", text_response |-> "fine"],
      [respondent_id |-> "r3", question_id |-> "qx", text_response |-> "great"] }

ConcPool == {r \in Pool : r.question_id \in {"q1", "q3"} /\ r.text_response = "fine"}

SeqsUpTo(S, n) == UNION {[1..k -> S] : k \in 0..n}

QuestionObjects ==
    {SurveyQuestions[i] : i \in 1..Len(SurveyQuestions)}
        \cup {QNoScale, QPrefNoScale, QUnknown}

PoolOf(t) == IF t = "main" THEN Pool ELSE ConcPool

InputsOf(t) ==
    IF t = "main" THEN SeqsUpTo(Pool, MaxResponses)
    ELSE SeqsUpTo(ConcPool, MaxConcResponses)

EngineTemperatures == {<<1, 1>>, <<2, 1>>}

\* ----------------------------------------------------------------- actions
CanCall(t) == th[t].pc = "idle"

Done(rec, status, value, err) ==
    [rec EXCEPT !.pc = "done", !.status = status, !.value = value, !.err = err,
                !.texts = <<>>]

\* rate_response(response, question), up to the get_embeddings call
RateCall(t, response, question) ==
    /\ CanCall(t)
    /\ LET rec == [Idle EXCEPT !.op = "rate", !.responses = <<response>>,
                               !.question = question]
           r == get_reference_statements(question)
       IN  th' = [th EXCEPT ![t] =
                IF ~r.ok THEN Done(rec, "error", <<>>, r.err)
                ELSE LET texts == RateRequest(response, ReferenceStatements(r.labels))
                     IN  [rec EXCEPT !.pc = "rate_wait", !.labels = r.labels,
                                     !.key = CacheKey(ReferenceStatements(r.labels)),
                                     !.texts = texts, !.sent = <<texts>>]]
    /\ UNCHANGED <<reference_cache, normalize_method, temperature, norm, agg, cmp, cd, cnv>>

\* rate_response from the answer of get_embeddings to its return
RateReturn(t) ==
    /\ th[t].pc = "rate_wait"
    /\ LET rec == th[t]
           f == RateFinish(rec.responses[1], rec.question, rec.labels,
                           Embed(rec.texts), normalize_method, temperature)
       IN  th' = [th EXCEPT ![t] =
                IF f.ok THEN Done(rec, "ok", f.value, "none")
                ELSE Done(rec, "error", <<>>, f.err)]
    /\ UNCHANGED <<reference_cache, normalize_method, temperature, norm, agg, cmp, cd, cnv>>

\* the record of a caller that has sent the request of one batch
Waiting(rec, pc, question, p) ==
    [rec EXCEPT !.pc = pc, !.question = question, !.labels = p.labels,
                !.key = p.key, !.hit = p.hit, !.texts = p.texts,
                !.reference_embeddings = p.reference_embeddings,
                !.sent = Append(rec.sent, p.texts)]

\* _rate_responses_batch(responses, question), up to the get_embeddings call
BatchCall(t, responses, question) ==
    /\ CanCall(t)
    /\ LET rec == [Idle EXCEPT !.op = "batch", !.responses = responses,
                               !.question = question]
           p == BatchPrepare(responses, question, reference_cache)
       IN  th' = [th EXCEPT ![t] =
                IF p.kind = "return" THEN Done(rec, "ok", <<>>, "none")
                ELSE IF p.kind = "raise" THEN Done(rec, "error", <<>>, p.err)
                ELSE Waiting(rec, "batch_wait", question, p)]
    /\ UNCHANGED <<reference_cache, normalize_method, temperature, norm, agg, cmp, cd, cnv>>

\* the rest of _rate_responses_batch once get_embeddings has answered
BatchFinish(rec, responses, embeddings, method, temp) ==
    BatchDistributions(responses, rec.question, rec.labels,
                       IF rec.hit THEN embeddings
                                  ELSE SplitResponses(embeddings, Len(responses)),
                       IF rec.hit THEN rec.reference_embeddings
                                  ELSE SplitReferences(embeddings, Len(responses)),
                       method, temp)

\* a batch that writes its cache entry only once the distributions are built
BatchReturnStoreLast(t) ==
    /\ th[t].pc = "batch_wait"
    /\ LET rec == th[t]
           embeddings == Embed(rec.texts)
           f == BatchFinish(rec, rec.responses, embeddings, normalize_method, temperature)
       IN  /\ reference_cache' =
                IF rec.hit \/ ~f.ok THEN reference_cache
                ELSE CacheStore(reference_cache, rec.key,
                                SplitReferences(embeddings, Len(rec.responses)))
           /\ th' = [th EXCEPT ![t] =
                IF f.ok THEN Done(rec, "ok", f.value, "none")
                ELSE Done(rec, "error", <<>>, f.err)]
    /\ UNCHANGED <<normalize_method, temperature, norm, agg, cmp, cd, cnv>>

\* _rate_responses_batch from the answer of get_embeddings to its return
BatchReturn(t) ==
    /\ th[t].pc = "batch_wait"
    /\ LET rec == th[t]
           embeddings == Embed(rec.texts)
           f == BatchFinish(rec, rec.responses, embeddings, normalize_method, temperature)
       IN  /\ reference_cache' =
                IF rec.hit THEN reference_cache
                ELSE CacheStore(reference_cache, rec.key,
                                SplitReferences(embeddings, Len(rec.responses)))
           /\ th' = [th EXCEPT ![t] =
                IF f.ok THEN Done(rec, "ok", f.value, "none")
                ELSE Done(rec, "error", <<>>, f.err)]
    /\ UNCHANGED <<normalize_method, temperature, norm, agg, cmp, cd, cnv>>

\* rate_responses: the loop from group gi on, up to the next get_embeddings
\* call, the end of the loop or the exception that ends it
ManyContinue(rec, gi, acc, cache) ==
    LET g == ManyNext(rec.groups, gi)
    IN  IF g > Len(rec.groups) THEN Done([rec EXCEPT !.gi = g, !.acc = acc], "ok", acc, "none")
        ELSE LET question == SurveyQuestions[get_question_by_id(rec.groups[g].question_id)]
                 p == BatchPrepare(rec.groups[g].responses, question, cache)
             IN  IF p.kind = "return" THEN Done([rec EXCEPT !.gi = g, !.acc = acc], "ok", acc, "none")
                 ELSE IF p.kind = "raise"
                 THEN Done([rec EXCEPT !.gi = g, !.acc = acc], "error", <<>>, p.err)
                 ELSE Waiting([rec EXCEPT !.gi = g, !.acc = acc], "many_wait", question, p)

\* rate_responses(responses, survey), up to the first get_embeddings call
ManyCall(t, responses) ==
    /\ CanCall(t)
    /\ LET rec == [Idle EXCEPT !.op = "many", !.responses = responses,
                               !.groups = Groups(responses)]
       IN  th' = [th EXCEPT ![t] = ManyContinue(rec, 1, <<>>, reference_cache)]
    /\ UNCHANGED <<reference_cache, normalize_method, temperature, norm, agg, cmp, cd, cnv>>

\* rate_responses from the answer of get_embeddings for group gi on
ManyReturn(t) ==
    /\ th[t].pc = "many_wait"
    /\ LET rec == th[t]
           responses == rec.groups[rec.gi].responses
           embeddings == Embed(rec.texts)
           f == BatchFinish(rec, responses, embeddings, normalize_method, temperature)
           cache == IF rec.hit THEN reference_cache
                    ELSE CacheStore(reference_cache, rec.key,
                                    SplitReferences(embeddings, Len(responses)))
       IN  /\ reference_cache' = cache
           /\ th' = [th EXCEPT ![t] =
                IF f.ok THEN ManyContinue(rec, rec.gi + 1, rec.acc \o f.value, cache)
                ELSE Done(rec, "error", <<>>, f.err)]
    /\ UNCHANGED <<normalize_method, temperature, norm, agg, cmp, cd, cnv>>

\* a handler that swallows the provider's error and returns what it has
ProviderFailSwallowed(t, e) ==
    /\ th[t].pc \in {"rate_wait", "batch_wait", "many_wait"}
    /\ th' = [th EXCEPT ![t] = [th[t] EXCEPT !.pc = "done", !.raised = e,
                                             !.status = "ok", !.value = th[t].acc,
                                             !.texts = <<>>]]
    /\ UNCHANGED <<reference_cache, normalize_method, temperature, norm, agg, cmp, cd, cnv>>

\* get_embeddings raises: no handler in rate_response, _rate_responses_batch
\* or rate_responses catches it, so it ends the call
ProviderFail(t, e) ==
    /\ th[t].pc \in {"rate_wait", "batch_wait", "many_wait"}
    /\ th' = [th EXCEPT ![t] = Done([th[t] EXCEPT !.raised = e], "error", <<>>, e)]
    /\ UNCHANGED <<reference_cache, normalize_method, temperature, norm, agg, cmp, cd, cnv>>

\* the caller takes the returned list, or the exception, and is free again
Return(t) ==
    /\ th[t].pc = "done"
    /\ th' = [th EXCEPT ![t] = Idle]
    /\ UNCHANGED <<reference_cache, normalize_method, temperature, norm, agg, cmp, cd, cnv>>

Step(t) ==
    \/ \E response \in PoolOf(t), question \in QuestionObjects :
            RateCall(t, response, question)
    \/ RateReturn(t)
    \/ \E responses \in InputsOf(t), question \in QuestionObjects :
            BatchCall(t, responses, question)
    \/ BatchReturn(t)
    \/ \E responses \in InputsOf(t) : ManyCall(t, responses)
    \/ ManyReturn(t)
    \/ \E e \in ProviderErrors : ProviderFail(t, e)
    \/ Return(t)

\* one engine, one caller
Init ==
    /\ reference_cache = <<>>
    /\ normalize_method \in Methods \cup {"median"}
    /\ temperature \in EngineTemperatures
    /\ th = [t \in Callers |-> Idle]
    /\ norm = NormIdle
    /\ agg = AggIdle
    /\ cmp = CmpIdle
    /\ cd = CdIdle
    /\ cnv = CnvIdle

Next == Step("main")

Spec == Init /\ [][Next]_vars

\* one engine shared by two concurrent callers
InitConc ==
    /\ reference_cache = <<>>
    /\ normalize_method = "paper"
    /\ temperature = <<1, 1>>
    /\ th = [t \in Callers |-> Idle]
    /\ norm = NormIdle
    /\ agg = AggIdle
    /\ cmp = CmpIdle
    /\ cd = CdIdle
    /\ cnv = CnvIdle

NextConc == \E t \in Workers : Step(t)

SpecConc == InitConc /\ [][NextConc]_vars

\* a direct call of the normalizer on an arbitrary finite similarity vector
SimValues == {<<0 - 1, 1>>, <<0, 1>>, <<1, 2>>, <<1, 1>>}

NormTemperatures == {<<1, 1>>, <<2, 1>>, <<1, 1000>>}

InitNorm ==
    /\ reference_cache = <<>>
    /\ normalize_method \in Methods \cup {"median"}
    /\ temperature \in NormTemperatures
    /\ th = [t \in Callers |-> Idle]
    /\ norm \in {[NormIdle EXCEPT !.pc = "called", !.similarities = v] :
                    v \in UNION {[1..n -> SimValues] : n \in 1..MaxN}}
    /\ agg = AggIdle
    /\ cmp = CmpIdle
    /\ cd = CdIdle
    /\ cnv = CnvIdle

Normalize ==
    /\ norm.pc = "called"
    /\ norm' = [norm EXCEPT !.pc = "done",
                  !.out = similarities_to_probabilities(norm.similarities,
                                                        normalize_method, temperature)]
    /\ UNCHANGED <<reference_cache, normalize_method, temperature, th, agg, cmp, cd, cnv>>

NextNorm == Normalize

SpecNorm == InitNorm /\ [][NextNorm]_vars

\* -------------------------------------------------------------- aggregator
\* main.py, aggregate_distributions_by_question.  std_probabilities and
\* mean_entropy (a square root, a logarithm) are not rational and are not
\* carried by the model.
MaxAgg == 3

\* Response.category of a question without category, and of every question
\* of a survey without categories (None)
NoCategory == ""

DefaultCategory == "general"

\* generate_responses: the category tag of the responses to a question
QuestionCategory(has_categories, question_id) ==
    IF ~has_categories THEN NoCategory
    ELSE IF question_id = "q1" THEN "brand"
    ELSE IF question_id = "q2" THEN "price"
    ELSE NoCategory

AggPool(has_categories) ==
    { [respondent_id |-> r, question_id |-> q, text_response |-> x,
       category |-> QuestionCategory(has_categories, q)] :
        r \in {"r1", "r2"}, q \in {"q1", "q2", "q3"}, x \in {"fine", "great"} }

\* one response per respondent and question, in any order
AggInputs(has_categories) ==
    {s \in SeqsUpTo(AggPool(has_categories), MaxAgg) :
        \A i, j \in 1..Len(s) :
            (s[i].respondent_id = s[j].respondent_id
             /\ s[i].question_id = s[j].question_id) => i = j}

\* rate_responses when no provider call fails: the distributions of the
\* groups whose question resolves, group after group
RECURSIVE RateGroups(_, _, _, _)
RateGroups(groups, gi, method, temp) ==
    LET g == ManyNext(groups, gi)
    IN  IF g > Len(groups) THEN <<>>
        ELSE LET question == SurveyQuestions[get_question_by_id(groups[g].question_id)]
                 labels == get_reference_statements(question).labels
                 b == BatchDistributions(groups[g].responses, question, labels,
                                         Embed(Texts(groups[g].responses)),
                                         Embed(ReferenceStatements(labels)), method, temp)
             IN  b.value \o RateGroups(groups, g + 1, method, temp)

\* the elements of a set of integers in ascending order
SortedSeq(S) ==
    [n \in 1..Cardinality(S) |-> CHOOSE k \in S : Cardinality({j \in S : j < k}) = n - 1]

\* the category looked up by respondent_id alone
CategoryOfRespondent(dist, responses) ==
    LET hits == {i \in 1..Len(responses) :
                    responses[i].respondent_id = dist.respondent_id}
    IN  IF hits = {} THEN DefaultCategory
        ELSE LET r == responses[CHOOSE i \in hits : \A j \in hits : i <= j]
             IN  IF r.category = NoCategory THEN DefaultCategory ELSE r.category

\* category = r.category or "general" of the first response with the
\* distribution's respondent_id and question_id, "general" when there is none
CategoryOf(dist, responses) ==
    LET hits == {i \in 1..Len(responses) :
                    /\ responses[i].respondent_id = dist.respondent_id
                    /\ responses[i].question_id = dist.question_id}
    IN  IF hits = {} THEN DefaultCategory
        ELSE LET r == responses[CHOOSE i \in hits : \A j \in hits : i <= j]
             IN  IF r.category = NoCategory THEN DefaultCategory ELSE r.category

\* by_question: the keys (category, question_id) in order of first insertion,
\* each with the positions of its distributions in the order they were appended
by_question(distributions, responses) ==
    LET key == [i \in 1..Len(distributions) |->
                    <<CategoryOf(distributions[i], responses), distributions[i].question_id>>]
        first == SortedSeq({i \in 1..Len(distributions) :
                                \A j \in 1..(i - 1) : key[j] # key[i]})
    IN  [g \in 1..Len(first) |->
            [key |-> key[first[g]],
             members |-> SortedSeq({i \in 1..Len(distributions) : key[i] = key[first[g]]})]]

\* np.mean of a list of numbers
FMean(v) == FDiv(FSum(v), <<Len(v), 1>>)

\* the elementwise sum of the vectors, not divided by their number
SumVec(vs) ==
    [k \in 1..Len(vs[1]) |-> FSum([m \in 1..Len(vs) |-> vs[m][k]])]

\* np.mean(prob_arrays, axis=0)
MeanVec(vs) ==
    [k \in 1..Len(vs[1]) |-> FMean([m \in 1..Len(vs) |-> vs[m][k]])]

\* int(x) of a finite float: truncation toward zero
IntOf(x) ==
    IF x[1] >= 0 THEN x[1] \div x[2] ELSE 0 - ((0 - x[1]) \div x[2])

\* aggregated[category][question_id], one entry per key of by_question;
\* members is by_question[key] as positions in the distributions list
aggregate_distributions_by_question(distributions, responses) ==
    LET groups == by_question(distributions, responses)
    IN  [g \in 1..Len(groups) |->
            LET dists == [m \in 1..Len(groups[g].members) |->
                            distributions[groups[g].members[m]]]
            IN  [category |-> groups[g].key[1],
                 question_id |-> groups[g].key[2],
                 members |-> groups[g].members,
                 mean_probabilities |->
                    MeanVec([m \in 1..Len(dists) |-> dists[m].distribution]),
                 sample_size |-> Len(dists),
                 mean_mode |->
                    IntOf(FMean([m \in 1..Len(dists) |-> <<mode(dists[m]), 1>>])),
                 mean_expected_value |->
                    FMean([m \in 1..Len(dists) |-> expected_value(dists[m])])]]

Aggregate ==
    /\ agg.pc = "called"
    /\ agg' = [agg EXCEPT !.pc = "done",
                 !.aggregated = aggregate_distributions_by_question(agg.distributions,
                                                                    agg.responses)]
    /\ UNCHANGED <<reference_cache, normalize_method, temperature, th, norm, cmp, cd, cnv>>

\* the run of main.py: responses generated, rated, then aggregated
InitAgg ==
    /\ reference_cache = <<>>
    /\ normalize_method = "paper"
    /\ temperature = <<1, 1>>
    /\ th = [t \in Callers |-> Idle]
    /\ norm = NormIdle
    /\ cmp = CmpIdle
    /\ cd = CdIdle
    /\ cnv = CnvIdle
    /\ \E has_categories \in BOOLEAN :
         \E responses \in AggInputs(has_categories) :
            agg = [AggIdle EXCEPT !.pc = "called", !.responses = responses,
                     !.distributions = RateGroups(Groups(responses), 1, "paper", <<1, 1>>)]

NextAgg == Aggregate

SpecAgg == InitAgg /\ [][NextAgg]_vars

\* ------------------------------------------------------------ ground truth
\* ground_truth_metrics.py.  A dict is the sequence of its <<key, value>>
\* items in insertion order, the empty dict is <<>>, a dict with fixed string
\* keys is a record.
\*
\* Values that are not rational are kept as exact formal sums: a function
\* from atoms to non-zero rational coefficients, <<>> being 0.  A sum of
\* logarithms  c1*log(a1) + ... maps each argument ai # 1 to ci; a sum of
\* square roots  c1*sqrt(X1) + ... maps each radicand Xi # 0, itself a sum
\* of logarithms, to ci.  Two equal formal sums are equal numbers.  The
\* chi-squared p-value is not carried, only its comparison with 0.05;
\* np.std is kept as the call it is.
MaxRespondents == 2

\* identifiers, as the strings of their characters
CatA == <<"a">>
CatAB == <<"a", "_", "b">>
QstC == <<"c">>
QstBC == <<"b", "_", "c">>

CmpCategories == <<CatA, CatAB>>
CmpQuestions == <<QstC, QstBC>>

\* mean_probabilities of a question in the ground truth
GtProbabilities(question_id) ==
    IF question_id = QstC THEN << <<1, 2>>, <<1, 4>>, <<1, 4>> >>
    ELSE << <<1, 4>>, <<1, 4>>, <<1, 2>> >>

\* probabilities of the k-th respondent listed for a question in a test run
RespondentProbabilities(k) ==
    IF k = 1 THEN << <<1, 2>>, <<1, 4>>, <<1, 4>> >>
    ELSE IF k = 2 THEN << <<0, 1>>, <<1, 2>>, <<1, 2>> >>
    ELSE << <<1, 4>>, <<1, 2>>, <<1, 4>> >>

CmpPairs == {<<c, q>> : c \in 1..Len(CmpCategories), q \in 1..Len(CmpQuestions)}

\* the nested dict category -> question -> value of the pairs chosen by has
NestedDict(has, value) ==
    LET questions(c) == SelectSeq([q \in 1..Len(CmpQuestions) |-> q],
                                  LAMBDA q : has[<<c, q>>])
        categories == SelectSeq([c \in 1..Len(CmpCategories) |-> c],
                                LAMBDA c : questions(c) # <<>>)
    IN  [i \in 1..Len(categories) |->
            <<CmpCategories[categories[i]],
              [j \in 1..Len(questions(categories[i])) |->
                  <<CmpQuestions[questions(categories[i])[j]],
                    value[<<categories[i], questions(categories[i])[j]>>]>>]>>]

\* ground_truth["aggregated_distributions"]
GroundTruthOf(has) ==
    NestedDict(has, [p \in CmpPairs |->
                        [mean_probabilities |-> GtProbabilities(CmpQuestions[p[2]])]])

\* test_run["distributions"]: per question the records of its respondents
TestRunOf(n) ==
    NestedDict([p \in CmpPairs |-> n[p] > 0],
               [p \in CmpPairs |->
                  [k \in 1..n[p] |-> [probabilities |-> RespondentProbabilities(k)]]])

HasKey(dict, k) == \E i \in 1..Len(dict) : dict[i][1] = k

Get(dict, k) == dict[CHOOSE i \in 1..Len(dict) : dict[i][1] = k][2]

DictKeys(dict) == [i \in 1..Len(dict) |-> dict[i][1]]

\* dict[k] = v
DictSet(dict, k, v) ==
    IF HasKey(dict, k)
    THEN [i \in 1..Len(dict) |-> IF dict[i][1] = k THEN <<k, v>> ELSE dict[i]]
    ELSE Append(dict, <<k, v>>)

FAbs(x) == IF x[1] < 0 THEN FNeg(x) ELSE x

\* v / v.sum()
NormalizeSum(v) == [k \in 1..Len(v) |-> FDiv(v[k], FSum(v))]

\* scipy wasserstein_distance over the positions 0..n-1: the sum of the
\* absolute differences of the two cumulative distributions
wasserstein_dist(p, q) ==
    FSum([k \in 1..(Len(p) - 1) |->
            FAbs(FSub(FSum(SubSeq(NormalizeSum(p), 1, k)),
                      FSum(SubSeq(NormalizeSum(q), 1, k))))])

mean_absolute_error(p, q) ==
    FMean([k \in 1..Len(p) |-> FAbs(FSub(NormalizeSum(p)[k], NormalizeSum(q)[k]))])

\* the formal sum  coef * atom
Term(coef, atom) == [x \in {atom} |-> coef]

FormalAdd(a, b) ==
    LET coef(x) == FAdd(IF x \in DOMAIN a THEN a[x] ELSE Zero,
                        IF x \in DOMAIN b THEN b[x] ELSE Zero)
    IN  [x \in {y \in (DOMAIN a) \cup (DOMAIN b) : coef(y) # Zero} |-> coef(x)]

FormalScale(a, k) == IF k = Zero THEN <<>> ELSE [x \in DOMAIN a |-> FMul(a[x], k)]

RECURSIVE FormalSum(_)
FormalSum(v) == IF v = <<>> THEN <<>> ELSE FormalAdd(v[1], FormalSum(Tail(v)))

\* np.mean of a list of formal sums
FormalMean(v) == FormalScale(FormalSum(v), FDiv(One, <<Len(v), 1>>))

\* c * np.log(x) for x > 0: log(1) is 0
LogTerm(c, x) == IF c = Zero \/ x = One THEN <<>> ELSE Term(c, x)

\* np.sqrt of a sum of logarithms: sqrt(0) is 0
SqrtTerm(X) == IF X = <<>> THEN <<>> ELSE Term(One, X)

\* epsilon of kl_divergence, 1e-10 in the code; 1/1000 keeps the products
\* of the model within 32 bits
Epsilon == <<1, 1000>>

\* kl_divergence with epsilon added to p only
KlDivergenceEpsilonOnP(p, q) ==
    LET pe == NormalizeSum([k \in 1..Len(p) |-> FAdd(p[k], Epsilon)])
        qe == NormalizeSum(q)
    IN  FormalSum([k \in 1..Len(p) |-> LogTerm(pe[k], FDiv(pe[k], qe[k]))])

\* np.sum(p * np.log(p / q)) after epsilon was added and both renormalized
kl_divergence(p, q) ==
    LET pe == NormalizeSum([k \in 1..Len(p) |-> FAdd(p[k], Epsilon)])
        qe == NormalizeSum([k \in 1..Len(q) |-> FAdd(q[k], Epsilon)])
    IN  FormalSum([k \in 1..Len(p) |-> LogTerm(pe[k], FDiv(pe[k], qe[k]))])

\* scipy rel_entr(x, m) summed: x * log(x / m) where x > 0, 0 where x = 0
RelEntr(x, m) ==
    FormalSum([k \in 1..Len(x) |->
                IF x[k] = Zero THEN <<>> ELSE LogTerm(x[k], FDiv(x[k], m[k]))])

\* scipy jensenshannon(p, q): sqrt((rel_entr(p, m) + rel_entr(q, m)) / 2)
\* with m = (p + q) / 2
js_divergence(p, q) ==
    LET pn == NormalizeSum(p)
        qn == NormalizeSum(q)
        m == [k \in 1..Len(pn) |-> FDiv(FAdd(pn[k], qn[k]), <<2, 1>>)]
    IN  SqrtTerm(FormalScale(FormalAdd(RelEntr(pn, m), RelEntr(qn, m)), <<1, 2>>))

\* the chi-squared value above which the p-value is below 0.05
Chi2Critical(dof) ==
    IF dof = 1 THEN <<3841, 1000>>
    ELSE IF dof = 2 THEN <<5991, 1000>>
    ELSE IF dof = 3 THEN <<7815, 1000>>
    ELSE <<9488, 1000>>

\* stats.chisquare(observed, expected): the statistic, and p_value < 0.05;
\* the p-value of a nan statistic, or with no degree of freedom, is nan
chi_squared_test(p, q, sample_size) ==
    LET expected == [k \in 1..Len(p) |-> FMul(NormalizeSum(p)[k], <<sample_size, 1>>)]
        observed == [k \in 1..Len(q) |-> FMul(NormalizeSum(q)[k], <<sample_size, 1>>)]
        chi2_stat ==
            FSum([k \in 1..Len(p) |->
                    FDiv(FMul(FSub(observed[k], expected[k]),
                              FSub(observed[k], expected[k])),
                         expected[k])])
    IN  [chi_squared |-> chi2_stat,
         significant |-> /\ Len(p) > 1
                         /\ FLess(Chi2Critical(Len(p) - 1), chi2_stat)]

compare_distributions(ground_truth_dist, test_dist, sample_size) ==
    LET gt == NormalizeSum(ground_truth_dist)
        test == NormalizeSum(test_dist)
        chi2_result == chi_squared_test(gt, test, sample_size)
    IN  [kl_divergence |-> kl_divergence(gt, test),
         js_divergence |-> js_divergence(gt, test),
         wasserstein_distance |-> wasserstein_dist(gt, test),
         chi_squared |-> chi2_result.chi_squared,
         significant_difference |-> chi2_result.significant,
         mean_absolute_error |-> mean_absolute_error(gt, test)]

\* the categories the outer loop does not skip, in ground-truth order
SharedCategories(gt_distributions, test_distributions) ==
    SelectSeq(DictKeys(gt_distributions), LAMBDA c : HasKey(test_distributions, c))

\* the inner loop with "break" where the code has "continue"
ComparedQuestionsBreak(gt_questions, test_questions) ==
    LET ids == DictKeys(gt_questions)
    IN  SelectSeq(ids, LAMBDA q :
            \A i \in 1..Len(ids) :
                (\E j \in i..Len(ids) : ids[j] = q) => HasKey(test_questions, ids[i]))

\* the questions of one category the inner loop does not skip
ComparedQuestions(gt_questions, test_questions) ==
    SelectSeq(DictKeys(gt_questions), LAMBDA q : HasKey(test_questions, q))

\* the call made without its sample_size argument, which then defaults to 100
QuestionComparisonDefaultSize(gt_distributions, test_distributions, category, question_id) ==
    LET gt_mean_probs == Get(Get(gt_distributions, category), question_id).mean_probabilities
        test_question_dists == Get(Get(test_distributions, category), question_id)
        test_probs_list == [i \in 1..Len(test_question_dists) |->
                                test_question_dists[i].probabilities]
        test_mean_probs == MeanVec(test_probs_list)
    IN  [category |-> category, question_id |-> question_id,
         ground_truth_dist |-> gt_mean_probs, test_dist |-> test_mean_probs,
         sample_size |-> 100,
         question_metrics |-> compare_distributions(gt_mean_probs, test_mean_probs, 100)]

\* the call of compare_distributions for one question: its arguments and
\* the metrics it returns
QuestionComparison(gt_distributions, test_distributions, category, question_id) ==
    LET gt_mean_probs == Get(Get(gt_distributions, category), question_id).mean_probabilities
        test_question_dists == Get(Get(test_distributions, category), question_id)
        test_probs_list == [i \in 1..Len(test_question_dists) |->
                                test_question_dists[i].probabilities]
        test_mean_probs == MeanVec(test_probs_list)
    IN  [category |-> category, question_id |-> question_id,
         ground_truth_dist |-> gt_mean_probs, test_dist |-> test_mean_probs,
         sample_size |-> Len(test_probs_list),
         question_metrics |->
            compare_distributions(gt_mean_probs, test_mean_probs, Len(test_probs_list))]

\* category_metrics, with the call each entry came from
CategoryComparisons(gt_distributions, test_distributions, category) ==
    LET ids == ComparedQuestions(Get(gt_distributions, category),
                                 Get(test_distributions, category))
    IN  [j \in 1..Len(ids) |->
            QuestionComparison(gt_distributions, test_distributions, category, ids[j])]

RECURSIVE Concat(_)
Concat(seqs) == IF seqs = <<>> THEN <<>> ELSE Head(seqs) \o Concat(Tail(seqs))

\* results["by_question"][f"{category}_{question_id}"] = question_metrics,
\* for the comparisons in the order they are made
RECURSIVE ByQuestion(_)
ByQuestion(comparisons) ==
    IF comparisons = <<>> THEN <<>>
    ELSE LET last == comparisons[Len(comparisons)]
         IN  DictSet(ByQuestion(SubSeq(comparisons, 1, Len(comparisons) - 1)),
                     last.category \o <<"_">> \o last.question_id,
                     last.question_metrics)

\* np.std(values): the call with numpy's default ddof = 0, the population
\* standard deviation of the listed values
np_std(values) == [std_of |-> values, ddof |-> 0]

\* the aggregate stored in results["by_category"][category] once the
\* category has a compared question
CategoryAggregate(m) ==
    [mean_kl_divergence |->
        FormalMean([j \in 1..Len(m) |-> m[j].question_metrics.kl_divergence]),
     mean_js_divergence |->
        FormalMean([j \in 1..Len(m) |-> m[j].question_metrics.js_divergence]),
     mean_wasserstein |->
        FMean([j \in 1..Len(m) |-> m[j].question_metrics.wasserstein_distance]),
     mean_mae |->
        FMean([j \in 1..Len(m) |-> m[j].question_metrics.mean_absolute_error]),
     num_questions |-> Len(m)]

\* results["overall_metrics"], from all_kl, all_js, all_wasserstein, all_mae
OverallMetrics(all) ==
    IF all = <<>> THEN <<>>
    ELSE [mean_kl_divergence |->
            FormalMean([j \in 1..Len(all) |-> all[j].question_metrics.kl_divergence]),
          std_kl_divergence |->
            np_std([j \in 1..Len(all) |-> all[j].question_metrics.kl_divergence]),
          mean_js_divergence |->
            FormalMean([j \in 1..Len(all) |-> all[j].question_metrics.js_divergence]),
          std_js_divergence |->
            np_std([j \in 1..Len(all) |-> all[j].question_metrics.js_divergence]),
          mean_wasserstein |->
            FMean([j \in 1..Len(all) |-> all[j].question_metrics.wasserstein_distance]),
          std_wasserstein |->
            np_std([j \in 1..Len(all) |-> all[j].question_metrics.wasserstein_distance]),
          mean_mae |->
            FMean([j \in 1..Len(all) |-> all[j].question_metrics.mean_absolute_error]),
          std_mae |->
            np_std([j \in 1..Len(all) |-> all[j].question_metrics.mean_absolute_error]),
          num_questions_compared |-> Len(all)]

\* the results dictionary, from the comparisons made per shared category;
\* a shared category keeps the empty dictionary it was given at the top of
\* the outer loop when none of its questions was compared
SurveyResults(categories, category_metrics) ==
    [compared |-> Concat(category_metrics),
     results |->
        [by_question |-> ByQuestion(Concat(category_metrics)),
         by_category |->
            [i \in 1..Len(categories) |->
                <<categories[i],
                  IF category_metrics[i] = <<>> THEN <<>>
                  ELSE CategoryAggregate(category_metrics[i])>>],
         overall_metrics |-> OverallMetrics(Concat(category_metrics))]]

\* the outer loop over the shared categories
CategoryMetrics(gt_distributions, test_distributions, categories) ==
    [i \in 1..Len(categories) |->
        CategoryComparisons(gt_distributions, test_distributions, categories[i])]

\* compare_survey_runs; compared lists the calls of compare_distributions
compare_survey_runs(gt_distributions, test_distributions) ==
    SurveyResults(SharedCategories(gt_distributions, test_distributions),
                  CategoryMetrics(gt_distributions, test_distributions,
                                  SharedCategories(gt_distributions, test_distributions)))

Compare ==
    /\ cmp.pc = "called"
    /\ LET r == compare_survey_runs(cmp.ground_truth, cmp.test_run)
       IN  cmp' = [cmp EXCEPT !.pc = "done", !.compared = r.compared,
                                !.results = r.results]
    /\ UNCHANGED <<reference_cache, normalize_method, temperature, th, norm, agg, cd, cnv>>

\* a ground truth and a test run, each holding any of the four
\* (category, question) pairs, the test run with 1..MaxRespondents
\* respondents per question
InitCmp ==
    /\ reference_cache = <<>>
    /\ normalize_method = "paper"
    /\ temperature = <<1, 1>>
    /\ th = [t \in Callers |-> Idle]
    /\ norm = NormIdle
    /\ agg = AggIdle
    /\ cd = CdIdle
    /\ cnv = CnvIdle
    /\ \E has \in [CmpPairs -> BOOLEAN], n \in [CmpPairs -> 0..MaxRespondents] :
         cmp = [CmpIdle EXCEPT !.pc = "called", !.ground_truth = GroundTruthOf(has),
                               !.test_run = TestRunOf(n)]

NextCmp == Compare

SpecCmp == InitCmp /\ [][NextCmp]_vars

\* a direct call of compare_distributions on two probability vectors of the
\* same length and a sample size
MaxSampleSize == 3

\* the vectors of 1 to 3 multiples of 1/4 that sum to 1
ProbVectors ==
    {v \in UNION {[1..n -> {Norm(k, 4) : k \in 0..4}] : n \in 1..3} : FSum(v) = One}

CompareDistributions ==
    /\ cd.pc = "called"
    /\ cd' = [cd EXCEPT !.pc = "done",
                !.out = compare_distributions(cd.ground_truth_dist, cd.test_dist,
                                              cd.sample_size)]
    /\ UNCHANGED <<reference_cache, normalize_method, temperature, th, norm, agg, cmp, cnv>>

InitDist ==
    /\ reference_cache = <<>>
    /\ normalize_method = "paper"
    /\ temperature = <<1, 1>>
    /\ th = [t \in Callers |-> Idle]
    /\ norm = NormIdle
    /\ agg = AggIdle
    /\ cmp = CmpIdle
    /\ cnv = CnvIdle
    /\ \E p \in ProbVectors, q \in ProbVectors, n \in 0..MaxSampleSize :
         /\ Len(p) = Len(q)
         /\ cd = [CdIdle EXCEPT !.pc = "called", !.ground_truth_dist = p,
                                !.test_dist = q, !.sample_size = n]

NextDist == CompareDistributions

SpecDist == InitDist /\ [][NextDist]_vars

\* ----------------------------------------------------------- serialization
\* main.py, convert_numpy_types.  A value is a record: kind names its Python
\* type, num holds the number of a scalar, items the elements of an array,
\* list, tuple or dict (the values of a dict, in insertion order).
MaxDepth == 2

Scalar(kind, num) == [kind |-> kind, num |-> num, items |-> <<>>]

Container(kind, items) == [kind |-> kind, num |-> <<0, 1>>, items |-> items]

ScalarValues ==
    {Scalar("np_float", x) : x \in {One, NaN, Inf}}
        \cup {Scalar("float", NaN), Scalar("float", <<1, 2>>), Scalar("int", One),
              Scalar("np_int", One), Scalar("np_bool", One)}

\* numpy arrays of one or two float64
ArrayValues ==
    {Container("ndarray", a) :
        a \in UNION {[1..n -> {Scalar("np_float", x) : x \in {One, NaN}}] : n \in 1..2}}

\* the values nested d deep: dicts, lists and tuples of one or (at the first
\* level) two values
RECURSIVE ValuesOfDepth(_)
ValuesOfDepth(d) ==
    IF d = 0 THEN ScalarValues \cup ArrayValues
    ELSE LET below == ValuesOfDepth(d - 1)
             items == IF d = 1 THEN [1..1 -> below] \cup [1..2 -> below]
                               ELSE [1..1 -> below]
         IN  below \cup {Container(k, i) : k \in {"dict", "list", "tuple"}, i \in items}

NonFinite(x) == IsNaN(x) \/ ~IsFinite(x)

\* convert_numpy_types: the isinstance chain in its order; obj.tolist()
\* turns the float64 of an array into Python floats and is returned as is
RECURSIVE convert_numpy_types(_)
convert_numpy_types(obj) ==
    IF obj.kind = "np_int" THEN Scalar("int", obj.num)
    ELSE IF obj.kind = "np_float"
         THEN IF IsNaN(obj.num) THEN NoneValue
              ELSE IF ~IsFinite(obj.num) THEN NoneValue
              ELSE Scalar("float", obj.num)
    ELSE IF obj.kind \in {"float", "int"}
         THEN IF obj.kind = "float" /\ NonFinite(obj.num) THEN NoneValue ELSE obj
    ELSE IF obj.kind = "ndarray"
         THEN Container("list", [i \in 1..Len(obj.items) |->
                                    Scalar("float", obj.items[i].num)])
    ELSE IF obj.kind = "np_bool" THEN Scalar("bool", obj.num)
    ELSE IF obj.kind \in {"dict", "list", "tuple"}
         THEN Container(obj.kind,
                        [i \in 1..Len(obj.items) |-> convert_numpy_types(obj.items[i])])
    ELSE obj

ConvertOnce ==
    /\ cnv.pc = "called"
    /\ cnv' = [cnv EXCEPT !.pc = "once", !.once = convert_numpy_types(cnv.obj)]
    /\ UNCHANGED <<reference_cache, normalize_method, temperature, th, norm, agg, cmp, cd>>

ConvertTwice ==
    /\ cnv.pc = "once"
    /\ cnv' = [cnv EXCEPT !.pc = "twice", !.twice = convert_numpy_types(cnv.once)]
    /\ UNCHANGED <<reference_cache, normalize_method, temperature, th, norm, agg, cmp, cd>>

InitConv ==
    /\ reference_cache = <<>>
    /\ normalize_method = "paper"
    /\ temperature = <<1, 1>>
    /\ th = [t \in Callers |-> Idle]
    /\ norm = NormIdle
    /\ agg = AggIdle
    /\ cmp = CmpIdle
    /\ cd = CdIdle
    /\ \E obj \in ValuesOfDepth(MaxDepth) : cnv = [CnvIdle EXCEPT !.pc = "called", !.obj = obj]

NextConv == ConvertOnce \/ ConvertTwice

SpecConv == InitConv /\ [][NextConv]_vars

\* ------------------------------------------------------------------ claims
\* what rate_response returns for one response when the provider answers
RateAlone(response, question) ==
    LET r == get_reference_statements(question)
    IN  IF ~r.ok THEN [ok |-> FALSE, err |-> r.err]
        ELSE RateFinish(response, question, r.labels,
                        Embed(RateRequest(response, ReferenceStatements(r.labels))),
                        normalize_method, temperature)

\* C1: a rate_batch call that returns gives one distribution per response,
\* the i-th with the respondent_id, question_id, raw similarities and
\* probabilities that rate gives for the i-th response alone, on a cache hit
\* as on a miss and for the empty list; and when rate_batch raises without a
\* provider failure, rate raises as well.
C1_BatchEqualsRate ==
    \A t \in Callers :
        (th[t].op = "batch" /\ th[t].pc = "done") =>
            /\ th[t].status = "ok" =>
                /\ Len(th[t].value) = Len(th[t].responses)
                /\ \A i \in 1..Len(th[t].responses) :
                      LET one == RateAlone(th[t].responses[i], th[t].question)
                      IN  /\ one.ok
                          /\ th[t].value[i].respondent_id = one.value[1].respondent_id
                          /\ th[t].value[i].question_id = one.value[1].question_id
                          /\ th[t].value[i].similarities = one.value[1].similarities
                          /\ th[t].value[i].distribution = one.value[1].distribution
            /\ (th[t].status = "error" /\ th[t].raised = "none") =>
                \A i \in 1..Len(th[t].responses) :
                    ~RateAlone(th[t].responses[i], th[t].question).ok

C1_Witness ==
    th["main"].op = "batch" /\ th["main"].pc = "done" /\ th["main"].status = "ok"
    /\ th["main"].hit /\ Len(th["main"].value) = 2
    /\ th["main"].value[1].distribution # th["main"].value[2].distribution

\* C2: a rate call made when the ordered reference statements of its
\* question are in the reference cache sends the response text alone to the
\* embedding provider.
C2_RateReusesCache ==
    (th["main"].pc = "rate_wait" /\ th["main"].key \in DOMAIN reference_cache) =>
        th["main"].texts = <<th["main"].responses[1].text_response>>

\* the n-th reference statement belongs to the n-th smallest scale point
Ascending(labels, statements) ==
    /\ Len(statements) = Len(labels)
    /\ \A a \in 1..Len(labels) :
          statements[Cardinality({b \in 1..Len(labels) : labels[b][1] < labels[a][1]}) + 1]
              = labels[a][2]

\* C3: a rate_batch call on a non-empty list, for a question that has
\* reference statements, makes exactly one provider call; on a miss its
\* input is the response texts followed by the reference statements in
\* ascending scale-point order, and once the provider has answered the
\* reference embeddings are in the cache under the ordered statement tuple;
\* on a hit its input is the response texts only and the embeddings stored
\* under that tuple are the ones used.
C3_OneCallPerBatch ==
    LET rec == th["main"]
        r == get_reference_statements(rec.question)
        M == Len(rec.responses)
    IN  (rec.op = "batch" /\ M > 0 /\ r.ok) =>
            /\ rec.pc \in {"batch_wait", "done"}
            /\ Len(rec.sent) = 1
            /\ Ascending(r.labels, rec.key)
            /\ rec.hit =>
                /\ rec.sent[1] = Texts(rec.responses)
                /\ rec.key \in DOMAIN reference_cache
                /\ rec.reference_embeddings = reference_cache[rec.key]
            /\ ~rec.hit =>
                /\ rec.sent[1] = Texts(rec.responses) \o rec.key
                /\ rec.pc = "batch_wait" => rec.key \notin DOMAIN reference_cache
                /\ (rec.pc = "done" /\ rec.raised = "none") =>
                    /\ rec.key \in DOMAIN reference_cache
                    /\ reference_cache[rec.key] = Embed(rec.key)

C3_Witness ==
    th["main"].op = "batch" /\ th["main"].pc = "done" /\ ~th["main"].hit
    /\ th["main"].raised = "none" /\ th["main"].question = Q3
    /\ Len(th["main"].responses) = 2 /\ Cardinality(DOMAIN reference_cache) = 2

\* C4: two rate_batch calls in progress at the same time for the same
\* ordered reference statements do not both send the reference statements
\* to the provider.
C4_ReferencesEmbeddedOnce ==
    \A t1 \in Workers, t2 \in Workers :
        (/\ t1 # t2
         /\ th[t1].op = "batch" /\ th[t1].pc = "batch_wait"
         /\ th[t2].op = "batch" /\ th[t2].pc = "batch_wait"
         /\ th[t1].key = th[t2].key) =>
            (th[t1].hit \/ th[t2].hit)

\* C5: every key of the reference cache maps to the complete reference
\* embeddings, one vector per statement of the key in the key's order, in
\* every state, also after failed calls and while other callers read it.
C5_CacheEntriesComplete ==
    \A k \in DOMAIN reference_cache :
        /\ Len(reference_cache[k]) = Len(k)
        /\ \A i \in 1..Len(k) : reference_cache[k][i] = Embedding(k[i])

C5_Witness ==
    /\ th["w1"].pc = "done" /\ th["w1"].raised # "none" /\ ~th["w1"].hit
    /\ th["w2"].pc = "batch_wait" /\ th["w2"].hit /\ th["w2"].key = th["w1"].key
    /\ th["w1"].key \in DOMAIN reference_cache

\* C6: once the provider has failed during a rate, rate_batch or rate_many
\* call, the call has ended with that same error, has returned no
\* distribution and has no further provider request in flight.
C6_ProviderFailurePropagates ==
    \A t \in Callers :
        th[t].raised # "none" =>
            /\ th[t].pc = "done"
            /\ th[t].status = "error"
            /\ th[t].err = th[t].raised
            /\ th[t].value = <<>>
            /\ th[t].texts = <<>>

C6_Witness ==
    th["main"].op = "many" /\ th["main"].raised = "RateLimitError"
    /\ Len(th["main"].sent) = 2 /\ Len(th["main"].acc) > 0

Resolves(question_id) == \E i \in 1..Len(SurveyQuestions) : SurveyQuestions[i].id = question_id

Occurrences(seq, x) == Cardinality({i \in 1..Len(seq) : seq[i] = x})

Origin(d) ==
    [respondent_id |-> d.respondent_id, question_id |-> d.question_id,
     text_response |-> d.text_response]

\* C7: a rate_many call that returns holds exactly one distribution for each
\* input response whose question_id the survey resolves, with that
\* response's respondent_id, question_id and text, and none for the others;
\* and the call raises only when the provider failed, a resolved question
\* has no reference statements or the normalization method is unknown,
\* never because a question_id does not resolve.
C7_UnresolvedGroupsSkipped ==
    LET rec == th["main"]
    IN  (rec.op = "many" /\ rec.pc = "done") =>
            /\ rec.status = "ok" =>
                \A x \in Pool :
                    Occurrences([i \in 1..Len(rec.value) |-> Origin(rec.value[i])], x)
                        = IF Resolves(x.question_id)
                          THEN Occurrences(rec.responses, x) ELSE 0
            /\ rec.status = "error" =>
                \/ rec.raised # "none"
                \/ normalize_method \notin Methods
                \/ \E i \in 1..Len(rec.responses) :
                      /\ Resolves(rec.responses[i].question_id)
                      /\ ~get_reference_statements(
                            SurveyQuestions[get_question_by_id(
                                rec.responses[i].question_id)]).ok

C7_Witness ==
    th["main"].op = "many" /\ th["main"].pc = "done" /\ th["main"].status = "ok"
    /\ Len(th["main"].responses) = 2 /\ Len(th["main"].value) = 1
    /\ th["main"].responses[1].question_id = "qx"

\* C8: a rate_batch or rate_many call on the empty list ends at once with
\* the empty list as its result, has sent nothing to the provider, and the
\* step leaves the reference cache as it was.
C8_EmptyListIsNoOp ==
    [][\A t \in Callers :
        (th'[t].op \in {"batch", "many"} /\ th'[t].responses = <<>>) =>
            /\ th'[t].pc = "done"
            /\ th'[t].status = "ok"
            /\ th'[t].value = <<>>
            /\ th'[t].sent = <<>>
            /\ reference_cache' = reference_cache]_vars

C8_Witness ==
    th["main"].op = "batch" /\ th["main"].responses = <<>> /\ th["main"].pc = "done"
    /\ th["main"].question = QBad /\ reference_cache # <<>>

\* C9: a rate_many call that returns has made exactly one provider call per
\* distinct resolvable question_id of its responses, and no call makes more.
C9_OneCallPerQuestion ==
    LET rec == th["main"]
        ids == {rec.responses[i].question_id : i \in 1..Len(rec.responses)}
        resolvable == {q \in ids : Resolves(q)}
    IN  rec.op = "many" =>
            /\ Len(rec.sent) <= Cardinality(resolvable)
            /\ (rec.pc = "done" /\ rec.status = "ok") =>
                    Len(rec.sent) = Cardinality(resolvable)

C9_Witness ==
    th["main"].op = "many" /\ th["main"].pc = "done" /\ th["main"].status = "ok"
    /\ Len(th["main"].responses) = 2 /\ Len(th["main"].sent) = 1
    /\ Len(th["main"].value) = 2

\* C10: for each of the four methods, any finite similarity vector of length
\* N >= 1 and any positive temperature, similarities_to_probabilities
\* returns N entries, all >= 0, that sum to 1.
C10_NormalizerYieldsDistribution ==
    (norm.pc = "done" /\ normalize_method \in Methods) =>
        /\ norm.out.ok
        /\ Len(norm.out.probs) = Len(norm.similarities)
        /\ \A i \in 1..Len(norm.out.probs) :
              IsFinite(norm.out.probs[i]) /\ ~FLess(norm.out.probs[i], Zero)
        /\ FSum(norm.out.probs) = One

AllEqual(v) == \A i \in 1..Len(v) : v[i] = v[1]

\* C11: with method paper or linear, a similarity vector whose entries are
\* all equal gives the uniform distribution, 1/N in every position.
C11_AllEqualGivesUniform ==
    (norm.pc = "done" /\ normalize_method \in {"paper", "linear"}
     /\ AllEqual(norm.similarities)) =>
        /\ norm.out.ok
        /\ Len(norm.out.probs) = Len(norm.similarities)
        /\ \A i \in 1..Len(norm.out.probs) :
              norm.out.probs[i] = Norm(1, Len(norm.similarities))

C11_Witness ==
    norm.pc = "done" /\ normalize_method = "paper" /\ temperature = <<1, 1000>>
    /\ Len(norm.similarities) = 3 /\ AllEqual(norm.similarities)
    /\ norm.similarities[1] = <<1, 2>> /\ norm.out.ok

RECURSIVE FMax(_)
FMax(v) ==
    IF Len(v) = 1 THEN v[1]
    ELSE LET m == FMax(Tail(v)) IN IF FLess(v[1], m) THEN m ELSE v[1]

\* C12: under method paper, for a similarity vector that is not constant, a
\* higher temperature gives a smaller maximum probability than a lower one.
C12_HigherTemperatureFlatter ==
    (norm.pc = "done" /\ normalize_method = "paper" /\ ~AllEqual(norm.similarities)) =>
        \A hotter \in NormTemperatures :
            FLess(temperature, hotter) =>
                FLess(FMax(similarities_to_probabilities(norm.similarities, "paper",
                                                         hotter).probs),
                      FMax(norm.out.probs))

\* C13: with a method tag outside paper, softmax, linear and rank,
\* similarities_to_probabilities fails with the configuration error and
\* returns no probability vector.
C13_UnknownMethodRaises ==
    (norm.pc = "done" /\ normalize_method \notin Methods) =>
        /\ ~norm.out.ok
        /\ norm.out.err = ConfigError
        /\ "probs" \notin DOMAIN norm.out

C13_Witness ==
    norm.pc = "done" /\ normalize_method = "median" /\ Len(norm.similarities) = 2
    /\ ~norm.out.ok

NoReferenceStatements(q) ==
    \/ q.type \in LikertTypes \cup {"preference_scale"} /\ ~q.scale.present
    \/ q.type = "multiple_choice" /\ ~(q.options.present /\ Len(q.options.items) > 0)
    \/ q.type \notin LikertTypes \cup {"preference_scale", "yes_no", "multiple_choice"}

\* C14: a non-empty batch for a question that cannot produce reference
\* statements (likert or preference_scale without a scale, multiple_choice
\* without options, an unknown type) ends with the configuration error, with
\* no request sent to the embedding provider for it and the reference cache
\* as it was.
C14_NoReferencesFailsBeforeProvider ==
    [][\A t \in Callers :
        /\ (/\ th[t].pc = "idle" /\ th'[t].op = "batch"
             /\ th'[t].responses # <<>>
             /\ NoReferenceStatements(th'[t].question)) =>
                /\ th'[t].pc = "done" /\ th'[t].status = "error"
                /\ th'[t].err = ConfigError /\ th'[t].value = <<>>
                /\ th'[t].sent = <<>> /\ th'[t].raised = "none"
                /\ reference_cache' = reference_cache
        /\ (/\ th[t].pc \in {"idle", "many_wait"} /\ th'[t].op = "many"
             /\ th'[t].raised = "none"
             /\ th'[t].gi \in 1..Len(th'[t].groups)
             /\ th'[t].gi # th[t].gi
             /\ NoReferenceStatements(
                    SurveyQuestions[get_question_by_id(th'[t].groups[th'[t].gi].question_id)])) =>
                /\ th'[t].pc = "done" /\ th'[t].status = "error"
                /\ th'[t].err = ConfigError /\ th'[t].value = <<>>
                /\ th'[t].sent = th[t].sent
                /\ th[t].pc = "idle" => reference_cache' = reference_cache
      ]_vars

C14_Witness ==
    /\ th["main"].op = "batch" /\ th["main"].pc = "done"
    /\ Len(th["main"].responses) = 2
    /\ th["main"].question = QPrefNoScale
    /\ th["main"].err = ConfigError /\ th["main"].sent = <<>>
    /\ reference_cache # <<>>

\* the distributions a caller has been handed by a call that returned
Produced == UNION {{th[t].value[i] : i \in 1..Len(th[t].value)} : t \in Callers}

\* C15: the mode of every distribution the engine produces is the scale point,
\* in ascending key order, at the first index of the largest probability,
\* whatever order the reference mapping holds its keys in.
C15_ModeIsArgMaxScalePoint ==
    \A d \in Produced :
        \E i \in 1..Len(d.distribution) :
            /\ \A j \in 1..Len(d.distribution) : ~FLess(d.distribution[i], d.distribution[j])
            /\ \A j \in 1..(i - 1) : FLess(d.distribution[j], d.distribution[i])
            /\ mode(d) = SortedKeys(d.scale_labels)[i]

\* C16: the expected value of every distribution the engine produces is the
\* sum, over the scale points, of the scale point times the probability
\* derived from that scale point's own reference statement, whatever order
\* the reference mapping holds its keys in.
C16_ExpectedValueUsesOwnProbability ==
    \A d \in Produced :
        expected_value(d) =
            FSum([i \in 1..Len(d.distribution) |->
                    FMul(<<SortedKeys(d.scale_labels)[i], 1>>, d.distribution[i])])

MemberVectors(e) ==
    [m \in 1..Len(e.members) |-> agg.distributions[e.members[m]].distribution]

\* C17: every (category, question_id) group of the aggregator reports as
\* sample_size the number of its member distributions and as
\* mean_probabilities the elementwise arithmetic mean of the member vectors,
\* not renormalized; when every member sums to 1, so does the mean.
C17_GroupMeanAndSampleSize ==
    agg.pc = "done" =>
        \A g \in 1..Len(agg.aggregated) :
            LET e == agg.aggregated[g]
                vs == MemberVectors(e)
            IN  /\ e.sample_size = Len(e.members)
                /\ e.sample_size > 0
                /\ Len(e.mean_probabilities) = Len(vs[1])
                /\ \A k \in 1..Len(e.mean_probabilities) :
                      FMul(e.mean_probabilities[k], <<e.sample_size, 1>>)
                          = FSum([m \in 1..Len(vs) |-> vs[m][k]])
                /\ (\A m \in 1..Len(vs) : FSum(vs[m]) = One)
                      => FSum(e.mean_probabilities) = One

C17_Witness ==
    /\ agg.pc = "done"
    /\ \E g \in 1..Len(agg.aggregated) :
          LET e == agg.aggregated[g]
              vs == MemberVectors(e)
          IN  /\ e.sample_size = 2
              /\ vs[1] # vs[2]
              /\ e.mean_probabilities \notin {vs[1], vs[2]}
              /\ FSum(vs[1]) = One /\ FSum(vs[2]) = One

\* the bucket of the response a distribution was rated from
OriginCategory(d) ==
    LET r == agg.responses[CHOOSE i \in 1..Len(agg.responses) :
                                /\ agg.responses[i].respondent_id = d.respondent_id
                                /\ agg.responses[i].question_id = d.question_id
                                /\ agg.responses[i].text_response = d.text_response]
    IN  IF r.category = NoCategory THEN DefaultCategory ELSE r.category

\* C18: the aggregator puts every input distribution in exactly one
\* (category, question_id) group, the category being the tag of the response
\* it was rated from or the default bucket when that response has none; the
\* sample sizes of the groups sum to the number of input distributions.
C18_EveryDistributionInOneGroup ==
    agg.pc = "done" =>
        /\ \A i \in 1..Len(agg.distributions) :
              LET places == {p \in {<<g, m>> : g \in 1..Len(agg.aggregated), m \in 1..Len(agg.distributions)} :
                                /\ p[2] <= Len(agg.aggregated[p[1]].members)
                                /\ agg.aggregated[p[1]].members[p[2]] = i}
              IN  /\ Cardinality(places) = 1
                  /\ \A p \in places :
                        /\ agg.aggregated[p[1]].question_id = agg.distributions[i].question_id
                        /\ agg.aggregated[p[1]].category = OriginCategory(agg.distributions[i])
        /\ \A g, h \in 1..Len(agg.aggregated) :
              (/\ agg.aggregated[g].category = agg.aggregated[h].category
               /\ agg.aggregated[g].question_id = agg.aggregated[h].question_id) => g = h
        /\ FSum([g \in 1..Len(agg.aggregated) |-> <<agg.aggregated[g].sample_size, 1>>])
              = <<Len(agg.distributions), 1>>

C18_Witness ==
    /\ agg.pc = "done"
    /\ Len(agg.distributions) = 3
    /\ Len(agg.aggregated) = 2
    /\ \E g, h \in 1..Len(agg.aggregated) :
          /\ agg.aggregated[g].category = DefaultCategory
          /\ agg.aggregated[h].category = "brand"
          /\ agg.aggregated[h].sample_size = 2

\* C19: mean_mode of a (category, question_id) group is the arithmetic mean
\* of the modes of its member distributions.
C19_MeanModeIsMeanOfModes ==
    agg.pc = "done" =>
        \A g \in 1..Len(agg.aggregated) :
            LET e == agg.aggregated[g]
            IN  <<e.mean_mode, 1>> =
                    FMean([m \in 1..Len(e.members) |->
                            <<mode(agg.distributions[e.members[m]]), 1>>])

\* the pair is in the nested dict: the category is, and the question in it
InDict(dict, category, question_id) ==
    HasKey(dict, category) /\ HasKey(Get(dict, category), question_id)

OnBothSides(category, question_id) ==
    /\ InDict(cmp.ground_truth, category, question_id)
    /\ InDict(cmp.test_run, category, question_id)

Compared(category, question_id) ==
    {i \in 1..Len(cmp.compared) :
        /\ cmp.compared[i].category = category
        /\ cmp.compared[i].question_id = question_id}

AllCategories == {CmpCategories[i] : i \in 1..Len(CmpCategories)}
AllQuestions == {CmpQuestions[i] : i \in 1..Len(CmpQuestions)}

\* C20: compare_runs compares exactly the (category, question) pairs present
\* on both sides, each once; a pair present on one side only is skipped and
\* counts in no metric: the question counts of by_category and of
\* overall_metrics are the numbers of two-sided pairs.
C20_ComparesExactlyCommonPairs ==
    cmp.pc = "done" =>
        /\ \A c \in AllCategories, q \in AllQuestions :
              Cardinality(Compared(c, q)) = IF OnBothSides(c, q) THEN 1 ELSE 0
        /\ \A c \in AllCategories :
              LET common == Cardinality({q \in AllQuestions : OnBothSides(c, q)})
              IN  /\ HasKey(cmp.results.by_category, c)
                        <=> (HasKey(cmp.ground_truth, c) /\ HasKey(cmp.test_run, c))
                  /\ common > 0 => Get(cmp.results.by_category, c).num_questions = common
                  /\ (common = 0 /\ HasKey(cmp.results.by_category, c))
                        => Get(cmp.results.by_category, c) = <<>>
        /\ LET common == Cardinality({p \in AllCategories \X AllQuestions :
                                        OnBothSides(p[1], p[2])})
           IN  IF common = 0 THEN cmp.results.overall_metrics = <<>>
               ELSE cmp.results.overall_metrics.num_questions_compared = common
        /\ \A i \in 1..Len(cmp.results.by_question) :
              \E j \in 1..Len(cmp.compared) :
                  cmp.results.by_question[i][1] =
                      cmp.compared[j].category \o <<"_">> \o cmp.compared[j].question_id

C20_Witness ==
    /\ cmp.pc = "done"
    /\ Len(cmp.compared) = 2
    /\ InDict(cmp.ground_truth, CatA, QstC) /\ ~InDict(cmp.test_run, CatA, QstC)
    /\ InDict(cmp.test_run, CatAB, QstBC) /\ ~InDict(cmp.ground_truth, CatAB, QstBC)
    /\ OnBothSides(CatA, QstBC) /\ OnBothSides(CatAB, QstC)

NoCommonPair ==
    \A c \in AllCategories, q \in AllQuestions : ~OnBothSides(c, q)

\* C21: when the ground truth and the test run have no (category, question)
\* pair in common, compare_runs returns with overall_metrics and by_category
\* both empty, whether or not a category name occurs on both sides.
C21_NoCommonPairGivesEmptyResults ==
    (cmp.pc = "done" /\ NoCommonPair) =>
        /\ cmp.results.overall_metrics = <<>>
        /\ cmp.results.by_category = <<>>

\* the probability vectors of the respondents the test run lists for a pair
RespondentVectors(category, question_id) ==
    LET listed == Get(Get(cmp.test_run, category), question_id)
    IN  [i \in 1..Len(listed) |-> listed[i].probabilities]

\* C22: for each compared (category, question) pair, the test vector handed
\* to compare_distributions is the elementwise average of the probability
\* vectors of all respondents the test run lists for the pair, and the
\* sample_size argument is the number of those respondents.
C22_TestVectorIsRespondentAverage ==
    cmp.pc = "done" =>
        \A i \in 1..Len(cmp.compared) :
            LET e == cmp.compared[i]
                vs == RespondentVectors(e.category, e.question_id)
            IN  /\ e.sample_size = Len(vs)
                /\ Len(e.test_dist) = Len(vs[1])
                /\ \A k \in 1..Len(e.test_dist) :
                      FMul(e.test_dist[k], <<Len(vs), 1>>)
                          = FSum([m \in 1..Len(vs) |-> vs[m][k]])
                /\ e.ground_truth_dist =
                      Get(Get(cmp.ground_truth, e.category), e.question_id).mean_probabilities

C22_Witness ==
    /\ cmp.pc = "done"
    /\ \E i \in 1..Len(cmp.compared) :
          LET e == cmp.compared[i]
              vs == RespondentVectors(e.category, e.question_id)
          IN  /\ e.sample_size = 2
              /\ vs[1] # vs[2]
              /\ e.test_dist \notin {vs[1], vs[2]}

\* the per-pair metrics of the compared questions of a category, in the
\* order they were compared
MetricsOf(category) ==
    LET ids == SortedSeq(UNION {Compared(category, q) : q \in AllQuestions})
    IN  [j \in 1..Len(ids) |-> cmp.compared[ids[j]].question_metrics]

\* by_category means of the four metrics the code averages
ReportedCategoryMeans(e, ms) ==
    /\ e.mean_kl_divergence = FormalMean([j \in 1..Len(ms) |-> ms[j].kl_divergence])
    /\ e.mean_js_divergence = FormalMean([j \in 1..Len(ms) |-> ms[j].js_divergence])
    /\ FMul(e.mean_wasserstein, <<Len(ms), 1>>)
            = FSum([j \in 1..Len(ms) |-> ms[j].wasserstein_distance])
    /\ FMul(e.mean_mae, <<Len(ms), 1>>)
            = FSum([j \in 1..Len(ms) |-> ms[j].mean_absolute_error])

\* C23: for each category with at least one compared question, by_category
\* holds the arithmetic mean, over the category's compared questions, of
\* every per-pair metric: KL divergence, JS divergence, Wasserstein
\* distance, chi-squared and mean absolute error.
C23_CategoryMeansOfEveryMetric ==
    cmp.pc = "done" =>
        \A c \in AllCategories :
            MetricsOf(c) # <<>> =>
                LET e == Get(cmp.results.by_category, c)
                    ms == MetricsOf(c)
                IN  /\ ReportedCategoryMeans(e, ms)
                    /\ "mean_chi_squared" \in DOMAIN e
                    /\ FMul(e.mean_chi_squared, <<Len(ms), 1>>)
                            = FSum([j \in 1..Len(ms) |-> ms[j].chi_squared])

\* the per-pair metrics of all compared questions, in the order compared
AllMetrics == [j \in 1..Len(cmp.compared) |-> cmp.compared[j].question_metrics]

\* overall mean and standard deviation of the four metrics the code
\* aggregates, and the count
ReportedOverall(o, ms) ==
    /\ o.mean_kl_divergence = FormalMean([j \in 1..Len(ms) |-> ms[j].kl_divergence])
    /\ o.std_kl_divergence = np_std([j \in 1..Len(ms) |-> ms[j].kl_divergence])
    /\ o.mean_js_divergence = FormalMean([j \in 1..Len(ms) |-> ms[j].js_divergence])
    /\ o.std_js_divergence = np_std([j \in 1..Len(ms) |-> ms[j].js_divergence])
    /\ FMul(o.mean_wasserstein, <<Len(ms), 1>>)
            = FSum([j \in 1..Len(ms) |-> ms[j].wasserstein_distance])
    /\ o.std_wasserstein = np_std([j \in 1..Len(ms) |-> ms[j].wasserstein_distance])
    /\ FMul(o.mean_mae, <<Len(ms), 1>>)
            = FSum([j \in 1..Len(ms) |-> ms[j].mean_absolute_error])
    /\ o.std_mae = np_std([j \in 1..Len(ms) |-> ms[j].mean_absolute_error])
    /\ o.num_questions_compared = Len(ms)
    /\ <<o.num_questions_compared, 1>> =
            FSum([i \in 1..Len(cmp.results.by_category) |->
                    IF cmp.results.by_category[i][2] = <<>> THEN Zero
                    ELSE <<cmp.results.by_category[i][2].num_questions, 1>>])

\* C24: when at least one pair is compared, overall_metrics holds the mean
\* and the population standard deviation of every metric (KL, JS,
\* Wasserstein, chi-squared, mean absolute error) over all compared
\* questions, each weighted equally, and num_questions_compared is the
\* number of compared pairs and the sum of num_questions over by_category.
C24_OverallMeanStdOfEveryMetric ==
    (cmp.pc = "done" /\ cmp.compared # <<>>) =>
        LET o == cmp.results.overall_metrics
            ms == AllMetrics
        IN  /\ ReportedOverall(o, ms)
            /\ {"mean_chi_squared", "std_chi_squared"} \subseteq DOMAIN o
            /\ FMul(o.mean_chi_squared, <<Len(ms), 1>>)
                    = FSum([j \in 1..Len(ms) |-> ms[j].chi_squared])
            /\ o.std_chi_squared = np_std([j \in 1..Len(ms) |-> ms[j].chi_squared])

\* C25: for a valid probability vector p and any sample size n,
\* compare_distributions(p, p, n) reports kl_divergence, js_divergence,
\* wasserstein_distance and mean_absolute_error equal to 0 and
\* significant_difference false.
C25_IdenticalDistributionsGiveZero ==
    (cd.pc = "done" /\ cd.ground_truth_dist = cd.test_dist) =>
        /\ cd.out.kl_divergence = <<>>
        /\ cd.out.js_divergence = <<>>
        /\ cd.out.wasserstein_distance = Zero
        /\ cd.out.mean_absolute_error = Zero
        /\ cd.out.significant_difference = FALSE

C25_Witness ==
    /\ cd.pc = "done"
    /\ cd.ground_truth_dist = cd.test_dist
    /\ cd.ground_truth_dist = << <<0, 1>>, <<1, 4>>, <<3, 4>> >>
    /\ cd.sample_size = MaxSampleSize
    /\ cd.out.kl_divergence = <<>>
    /\ IsNaN(cd.out.chi_squared)

NumberKinds == {"np_int", "np_float", "int", "float"}

\* some number of the value, at any depth, is nan or infinite
RECURSIVE HoldsNonFinite(_)
HoldsNonFinite(v) ==
    \/ v.kind \in NumberKinds /\ NonFinite(v.num)
    \/ \E i \in 1..Len(v.items) : HoldsNonFinite(v.items[i])

\* the numbers of the value in reading order, null standing for None and for
\* a nan or infinite number
RECURSIVE Numbers(_)
Numbers(v) ==
    IF v.kind = "none" THEN <<[null |-> TRUE, num |-> Zero]>>
    ELSE IF v.kind \in NumberKinds
         THEN IF NonFinite(v.num) THEN <<[null |-> TRUE, num |-> Zero]>>
              ELSE <<[null |-> FALSE, num |-> v.num]>>
    ELSE Concat([i \in 1..Len(v.items) |-> Numbers(v.items[i])])

\* C26: convert_numpy_types, applied to a value built from dicts, lists,
\* tuples, numpy arrays and numeric scalars, returns a structure in which
\* every nan or infinite number at any depth is replaced by null and every
\* other number keeps its value; applying it a second time changes nothing.
C26_NonFiniteBecomesNull ==
    cnv.pc = "twice" =>
        /\ ~HoldsNonFinite(cnv.once)
        /\ Numbers(cnv.once) = Numbers(cnv.obj)
        /\ cnv.twice = cnv.once

\* the position in the input of the first response to the question
FirstOccurrence(responses, question_id) ==
    CHOOSE i \in 1..Len(responses) :
        /\ responses[i].question_id = question_id
        /\ \A j \in 1..(i - 1) : responses[j].question_id # question_id

\* who answered what to the question, in the order of the list
AnswersTo(list, question_id) ==
    LET of == SelectSeq(list, LAMBDA x : x.question_id = question_id)
    IN  [i \in 1..Len(of) |-> <<of[i].respondent_id, of[i].text_response>>]

\* C27: rate_many returns its distributions grouped by question: the groups
\* come in the order in which their question_id first occurs in the input,
\* and inside a group the distributions follow the input order of the
\* question's responses.
C27_OutputGroupedInFirstOccurrenceOrder ==
    LET responses == agg.responses
        out == agg.distributions
    IN  /\ \A i, j \in 1..Len(out) :
              i < j => FirstOccurrence(responses, out[i].question_id)
                          <= FirstOccurrence(responses, out[j].question_id)
        /\ \A q \in {"q1", "q2", "q3"} : AnswersTo(out, q) = AnswersTo(responses, q)

C27_Witness ==
    /\ Len(agg.responses) = 3
    /\ [i \in 1..3 |-> agg.responses[i].question_id] = <<"q2", "q1", "q2">>
    /\ [i \in 1..3 |-> agg.distributions[i].question_id] = <<"q2", "q2", "q1">>
    /\ [i \in 1..3 |-> agg.responses[i].respondent_id] = <<"r2", "r1", "r1">>
    /\ [i \in 1..3 |-> agg.distributions[i].respondent_id] = <<"r2", "r1", "r1">>

\* C28: the reference cache of an engine only grows: a key that is present
\* stays present with the same embeddings over every step of rate, rate_batch
\* and rate_many, and a step of a call that hit the cache leaves the cache as
\* it was.
C28_CacheOnlyGrows ==
    [][/\ \A k \in DOMAIN reference_cache :
              /\ k \in DOMAIN reference_cache'
              /\ reference_cache'[k] = reference_cache[k]
       /\ \A t \in Callers :
              (th[t].pc \in {"batch_wait", "many_wait"} /\ th[t].hit
                    /\ th'[t] # th[t])
                 => reference_cache' = reference_cache]_vars

C28_Witness ==
    /\ th["main"].pc = "done" /\ th["main"].op = "batch"
    /\ th["main"].hit /\ th["main"].status = "ok"
    /\ Cardinality(DOMAIN reference_cache) = 2
    /\ th["main"].key \in DOMAIN reference_cache
    /\ reference_cache[th["main"].key] = th["main"].reference_embeddings

\* C29: the by_question map returned by compare_survey_runs has one distinct
\* entry per compared (category, question) pair, so its size equals
\* num_questions_compared of the overall metrics, whatever characters the
\* identifiers contain, "_" included.
C29_OneEntryPerComparedPair ==
    (cmp.pc = "done" /\ cmp.compared # <<>>) =>
        /\ Len(cmp.results.by_question) = Len(cmp.compared)
        /\ Len(cmp.results.by_question)
              = cmp.results.overall_metrics.num_questions_compared

\* C30: with an unknown normalization method configured, a rate_batch call on
\* a non-empty batch whose reference set is not cached, and whose provider
\* call succeeds, ends with the configuration error after exactly one request
\* to the embedding provider (the response texts followed by the reference
\* statements), and the reference-cache entry written from that request's
\* answer is present after the error.
C30_UnknownMethodFailsAfterProviderCall ==
    \A t \in Callers :
        (/\ normalize_method \notin Methods
         /\ th[t].op = "batch" /\ th[t].pc = "done"
         /\ th[t].responses # <<>>
         /\ ~NoReferenceStatements(th[t].question)
         /\ ~th[t].hit
         /\ th[t].raised = "none")
        => /\ th[t].status = "error" /\ th[t].err = ConfigError
           /\ Len(th[t].sent) = 1
           /\ th[t].sent[1] = Texts(th[t].responses) \o th[t].key
           /\ th[t].key \in DOMAIN reference_cache
           /\ reference_cache[th[t].key] = Embed(th[t].key)

C30_Witness ==
    /\ normalize_method = "median"
    /\ th["main"].op = "batch" /\ th["main"].pc = "done"
    /\ Len(th["main"].responses) = 2
    /\ ~th["main"].hit /\ th["main"].raised = "none"
    /\ th["main"].err = ConfigError /\ Len(th["main"].sent) = 1
    /\ DOMAIN reference_cache = {th["main"].key}

====
